---- MODULE Spec2Model ----
(***************************************************************************)
(* Campaign lifecycle and membership orchestration of campaign-service.    *)
(*                                                                         *)
(* One campaign is modelled in detail, together with its participant rows, *)
(* ban records, waitlist responses, prize rows, the events published for   *)
(* it and the clip-service messages consumed for it; the other campaigns   *)
(* of the table appear with the columns the sweep uses.                    *)
(*                                                                         *)
(* Every exported service function is a sequence of awaited store or       *)
(* publisher calls; each awaited call is one atomic step of the request    *)
(* (process) that runs it, and the synchronous code between two awaits is  *)
(* part of the step of the await that precedes it.  A request that has not *)
(* started has pc = "idle"; the first step of an operation is enabled on   *)
(* an idle request and carries the operation's arguments.                  *)
(***************************************************************************)
EXTENDS Integers, FiniteSets, Sequences, TLC

VARIABLES
    campaign,      \* the Campaign row
    participants,  \* CampaignParticipant rows: userId -> role, "NONE" = no row
    bans,          \* WaitlistBan rows: set of userIds
    responses,     \* WaitlistResponse rows: userId -> status, "NONE" = no row
    prizes,        \* PrizeDistribution rows: sequence of [position, reward, label]
    events,        \* number of events published, by event type
    procs,         \* in-flight requests: request -> [pc, op, locals ...]
    last,          \* the request that returned last: [op, result]
    now,           \* the wall clock read by new Date()
    siblings,      \* the other Campaign rows of the table: id -> row
    inbox,         \* messages of the campaign.events queue: id -> [type, ...]
    questions      \* WaitlistQuestion rows, in the order of their insertion

vars == <<campaign, participants, bans, responses, prizes, events, procs, last,
          now, siblings, inbox, questions>>

----------------------------------------------------------------------------
(* Bounds of the model. *)

MaxUsers == 2
MaxSlots == 2
MaxProcs == 2
MaxEvents == 3
MaxTime == 2

(* Users 0..MaxUsers.  User 0 creates the campaign; the last user carries  *)
(* the staff flag in its verified identity.                                *)
Users == 0..MaxUsers
CreatorId == 0
IsStaff(u) == u = MaxUsers
Procs == 1..MaxProcs

Statuses == {"DRAFT", "ACTIVE", "ENDED"}
CampaignTypes == {"AUTO_JOIN", "WAITLIST"}
EventTypes == {"statusChanged", "funded", "endedManual", "endedDate",
               "participantJoined", "participantLeft"}

(* An optional value is a set with at most one element. *)
Absent == {}
Some(v) == {v}
The(s) == CHOOSE v \in s : TRUE
\* JavaScript's a ?? b
Coalesce(opt, default) == IF opt = Absent THEN default ELSE The(opt)

----------------------------------------------------------------------------
(* Results of a request. *)

Ok == [kind |-> "OK", msg |-> ""]
Err(kind, msg) == [kind |-> kind, msg |-> msg]
\* An error the service does not raise itself: the store rejected the call
\* (unique-key violation on create, no such row on update/delete).
StoreError(msg) == [kind |-> "StoreError", msg |-> msg]

Idle == [pc |-> "idle"]
NoCall == [op |-> "none", result |-> Ok]

InFlight == {p \in Procs : procs[p].pc # "idle"}

RECURSIVE SumOver(_, _)
SumOver(f, S) ==
    IF S = {} THEN 0
    ELSE LET x == CHOOSE y \in S : TRUE IN f[x] + SumOver(f, S \ {x})

Published == SumOver(events, EventTypes)

\* The model stops accepting requests once MaxEvents events could have been
\* published, and once the campaign row has been deleted.
CanStart(p) ==
    /\ procs[p].pc = "idle"
    /\ Published + Cardinality(InFlight) < MaxEvents
    /\ ~campaign.deleted

Publish(type) == events' = [events EXCEPT ![type] = @ + 1]

Return(p, op, result) ==
    /\ procs' = [procs EXCEPT ![p] = Idle]
    /\ last' = [op |-> op, result |-> result]

Goto(p, rec) == procs' = [procs EXCEPT ![p] = rec] /\ UNCHANGED last

----------------------------------------------------------------------------
(* Store queries. *)

\* getParticipantRole: participant?.role ?? null
getParticipantRole(u) == participants[u]

\* _count.participants
ParticipantCount == Cardinality({u \in Users : participants[u] # "NONE"})

\* getCampaign / campaign.findUnique with _count: the row as read now
LoadCampaign == [row |-> campaign, count |-> ParticipantCount]

----------------------------------------------------------------------------
(* createCampaign: the state after construction. *)

DefaultEditorSlots == 5
DefaultTotalBudget == 0

\* Column defaults of the Campaign table.
SchemaDefaults ==
    [status |-> "DRAFT", isFunded |-> FALSE, platformFee |-> 0,
     remainingBudget |-> 0, archivedAt |-> Absent, permissions |-> Absent,
     approvedClips |-> 0, rejectedClips |-> 0, pendingClips |-> 0,
     totalViews |-> 0]

CreateCampaign(data, creator) ==
    [status |-> SchemaDefaults.status,
     campaignType |-> Coalesce(data.campaignType, "AUTO_JOIN"),
     editorSlots |-> Coalesce(data.editorSlots, DefaultEditorSlots),
     totalBudget |-> Coalesce(data.totalBudget, DefaultTotalBudget),
     platformFee |-> SchemaDefaults.platformFee,
     remainingBudget |-> SchemaDefaults.remainingBudget,
     isFunded |-> SchemaDefaults.isFunded,
     endDate |-> data.endDate,
     archivedAt |-> SchemaDefaults.archivedAt,
     permissions |-> SchemaDefaults.permissions,
     createdBy |-> creator,
     approvedClips |-> SchemaDefaults.approvedClips,
     rejectedClips |-> SchemaDefaults.rejectedClips,
     pendingClips |-> SchemaDefaults.pendingClips,
     totalViews |-> SchemaDefaults.totalViews,
     deleted |-> FALSE]

\* The creator's CREATOR row, inserted right after the campaign row.
CreatorRows(creator) == [u \in Users |-> IF u = creator THEN "CREATOR" ELSE "NONE"]

InitWith(data, status) ==
    /\ campaign = [CreateCampaign(data, CreatorId) EXCEPT !.status = status]
    /\ participants = CreatorRows(CreatorId)
    /\ bans = {}
    /\ responses = [u \in Users |-> "NONE"]
    /\ prizes = << >>
    /\ events = [t \in EventTypes |-> 0]
    /\ procs = [p \in Procs |-> Idle]
    /\ last = NoCall
    /\ now = 0
    /\ siblings = << >>
    /\ inbox = << >>
    /\ questions = << >>

----------------------------------------------------------------------------
(* joinCampaign(campaignId, user, answers?) *)

\* campaign.findUnique with _count; not ACTIVE -> badRequest
JoinLoad(p, u, answers) ==
    /\ CanStart(p)
    /\ UNCHANGED <<campaign, participants, bans, responses, prizes, events, now, siblings, inbox, questions>>
    /\ IF campaign.status # "ACTIVE"
       THEN Return(p, "join", Err("BadRequest", "not active"))
       ELSE Goto(p, [pc |-> "join_existing", op |-> "join", user |-> u,
                     answers |-> answers, snap |-> LoadCampaign])

\* campaignParticipant.findUnique; existing -> conflict
JoinExisting(p) ==
    /\ procs[p].pc = "join_existing"
    /\ UNCHANGED <<campaign, participants, bans, responses, prizes, events, now, siblings, inbox, questions>>
    /\ LET u == procs[p].user IN
       IF participants[u] # "NONE"
       THEN Return(p, "join", Err("Conflict", "already a participant"))
       ELSE Goto(p, [procs[p] EXCEPT !.pc = "join_banned"])

\* The slot check of an AUTO_JOIN campaign, on the count read with the campaign.
JoinIsFull(snap) ==
    snap.row.campaignType = "AUTO_JOIN" /\ snap.count >= snap.row.editorSlots

\* JoinBanned without the ban lookup.
JoinBanned_NoBanCheck(p) ==
    /\ procs[p].pc = "join_banned"
    /\ UNCHANGED <<campaign, participants, bans, responses, prizes, events, now, siblings, inbox, questions>>
    /\ IF JoinIsFull(procs[p].snap)
       THEN Return(p, "join", Err("Forbidden", "full"))
       ELSE Goto(p, [procs[p] EXCEPT !.pc = "join_create"])

\* waitlistBan.findUnique; banned -> forbidden; then the slot check
JoinBanned(p) ==
    /\ procs[p].pc = "join_banned"
    /\ UNCHANGED <<campaign, participants, bans, responses, prizes, events, now, siblings, inbox, questions>>
    /\ LET u == procs[p].user IN
       IF u \in bans
       THEN Return(p, "join", Err("Forbidden", "banned"))
       ELSE IF JoinIsFull(procs[p].snap)
       THEN Return(p, "join", Err("Forbidden", "full"))
       ELSE Goto(p, [procs[p] EXCEPT !.pc = "join_create"])

JoinRole(snap) == IF snap.row.campaignType = "AUTO_JOIN" THEN "MEMBER" ELSE "PENDING"

\* JoinCreate on a store that accepts the insert whatever rows exist.
JoinCreate_NoUniqueKey(p) ==
    /\ procs[p].pc = "join_create"
    /\ UNCHANGED <<campaign, bans, responses, prizes, events, now, siblings, inbox, questions>>
    /\ participants' = [participants EXCEPT ![procs[p].user] = JoinRole(procs[p].snap)]
    /\ Goto(p, [procs[p] EXCEPT !.pc = "join_publish"])

\* campaignParticipant.create; (campaignId, userId) is a unique key
JoinCreate(p) ==
    /\ procs[p].pc = "join_create"
    /\ UNCHANGED <<campaign, bans, responses, prizes, events, now, siblings, inbox, questions>>
    /\ LET u == procs[p].user
           snap == procs[p].snap IN
       IF participants[u] # "NONE"
       THEN /\ UNCHANGED participants
            /\ Return(p, "join", StoreError("participant exists"))
       ELSE /\ participants' = [participants EXCEPT ![u] = JoinRole(snap)]
            /\ Goto(p, [procs[p] EXCEPT !.pc =
                   IF snap.row.campaignType # "AUTO_JOIN" /\ procs[p].answers
                   THEN "join_response" ELSE "join_publish"])

\* waitlistResponse.create; (campaignId, userId) is a unique key
JoinResponse(p) ==
    /\ procs[p].pc = "join_response"
    /\ UNCHANGED <<campaign, participants, bans, prizes, events, now, siblings, inbox, questions>>
    /\ LET u == procs[p].user IN
       IF responses[u] # "NONE"
       THEN /\ UNCHANGED responses
            /\ Return(p, "join", StoreError("response exists"))
       ELSE /\ responses' = [responses EXCEPT ![u] = "PENDING"]
            /\ Goto(p, [procs[p] EXCEPT !.pc = "join_publish"])

\* publisher.publish(participantJoined)
JoinPublish(p) ==
    /\ procs[p].pc = "join_publish"
    /\ UNCHANGED <<campaign, participants, bans, responses, prizes, now, siblings, inbox, questions>>
    /\ Publish("participantJoined")
    /\ Return(p, "join", Ok)

Join(p) ==
    \/ \E u \in Users, answers \in BOOLEAN : JoinLoad(p, u, answers)
    \/ JoinExisting(p)
    \/ JoinBanned(p)
    \/ JoinCreate(p)
    \/ JoinResponse(p)
    \/ JoinPublish(p)

----------------------------------------------------------------------------
(* approveParticipant(campaignId, targetUserId, user) *)

\* campaign.findUnique with _count
ApproveLoad(p, actor, target) ==
    /\ CanStart(p)
    /\ UNCHANGED <<campaign, participants, bans, responses, prizes, events, now, siblings, inbox, questions>>
    /\ Goto(p, [pc |-> "approve_role", op |-> "approve", user |-> actor,
                target |-> target, snap |-> LoadCampaign])

CanApprove(role, actor) == role = "CREATOR" \/ role = "ADMIN" \/ IsStaff(actor)

\* The slot check of approve, on the count read with the campaign.
ApproveIsFull(snap) == snap.count >= snap.row.editorSlots

\* getParticipantRole of the requester; then the slot check
ApproveRole(p) ==
    /\ procs[p].pc = "approve_role"
    /\ UNCHANGED <<campaign, participants, bans, responses, prizes, events, now, siblings, inbox, questions>>
    /\ LET actor == procs[p].user
           target == procs[p].target IN
       IF ~CanApprove(getParticipantRole(actor), actor)
       THEN Return(p, "approve", Err("Forbidden", "permission"))
       ELSE IF ApproveIsFull(procs[p].snap)
       THEN Return(p, "approve", Err("Forbidden", "full"))
       ELSE Goto(p, [procs[p] EXCEPT !.pc = "approve_update"])

\* campaignParticipant.update role MEMBER; fails when the row does not exist
ApproveUpdate(p) ==
    /\ procs[p].pc = "approve_update"
    /\ UNCHANGED <<campaign, bans, responses, prizes, events, now, siblings, inbox, questions>>
    /\ LET target == procs[p].target IN
       IF participants[target] = "NONE"
       THEN /\ UNCHANGED participants
            /\ Return(p, "approve", StoreError("no participant"))
       ELSE /\ participants' = [participants EXCEPT ![target] = "MEMBER"]
            /\ Goto(p, [procs[p] EXCEPT !.pc = "approve_response"])

\* waitlistResponse.updateMany status APPROVED
ApproveResponse(p) ==
    /\ procs[p].pc = "approve_response"
    /\ UNCHANGED <<campaign, participants, bans, prizes, events, now, siblings, inbox, questions>>
    /\ LET target == procs[p].target IN
       responses' = [responses EXCEPT ![target] =
                        IF @ = "NONE" THEN "NONE" ELSE "APPROVED"]
    /\ Goto(p, [procs[p] EXCEPT !.pc = "approve_publish"])

\* publisher.publish(participantJoined)
ApprovePublish(p) ==
    /\ procs[p].pc = "approve_publish"
    /\ UNCHANGED <<campaign, participants, bans, responses, prizes, now, siblings, inbox, questions>>
    /\ Publish("participantJoined")
    /\ Return(p, "approve", Ok)

Approve(p) ==
    \/ \E actor \in Users, target \in Users : ApproveLoad(p, actor, target)
    \/ ApproveRole(p)
    \/ ApproveUpdate(p)
    \/ ApproveResponse(p)
    \/ ApprovePublish(p)

----------------------------------------------------------------------------
(* removeParticipant(campaignId, targetUserId, user, reason?) *)

CanRemove(role, actor) == role = "CREATOR" \/ IsStaff(actor)

\* getParticipantRole of the requester; then the self-removal check.
\* op is "remove", or "manage" when manageParticipant delegated here.
RemoveCheck(p, op, actor, target) ==
    /\ UNCHANGED <<campaign, participants, bans, responses, prizes, events, now, siblings, inbox, questions>>
    /\ IF ~CanRemove(getParticipantRole(actor), actor)
       THEN Return(p, op, Err("Forbidden", "permission"))
       ELSE IF target = actor
       THEN Return(p, op, Err("BadRequest", "cannot remove yourself"))
       ELSE Goto(p, [pc |-> "remove_delete", op |-> op, user |-> actor,
                     target |-> target])

RemoveRole(p, actor, target) ==
    /\ CanStart(p)
    /\ RemoveCheck(p, "remove", actor, target)

\* campaignParticipant.delete; fails when the row does not exist
RemoveDelete(p) ==
    /\ procs[p].pc = "remove_delete"
    /\ UNCHANGED <<campaign, bans, responses, prizes, events, now, siblings, inbox, questions>>
    /\ LET target == procs[p].target IN
       IF participants[target] = "NONE"
       THEN /\ UNCHANGED participants
            /\ Return(p, procs[p].op, StoreError("no participant"))
       ELSE /\ participants' = [participants EXCEPT ![target] = "NONE"]
            /\ Goto(p, [procs[p] EXCEPT !.pc = "remove_publish"])

\* publisher.publish(participantLeft)
RemovePublish(p) ==
    /\ procs[p].pc = "remove_publish"
    /\ UNCHANGED <<campaign, participants, bans, responses, prizes, now, siblings, inbox, questions>>
    /\ Publish("participantLeft")
    /\ Return(p, procs[p].op, Ok)

Remove(p) ==
    \/ \E actor \in Users, target \in Users : RemoveRole(p, actor, target)
    \/ RemoveDelete(p)
    \/ RemovePublish(p)

----------------------------------------------------------------------------
(* banParticipant(campaignId, targetUserId, user, reason?) *)

CanBan(role, actor) == role = "CREATOR" \/ role = "ADMIN" \/ IsStaff(actor)

\* getParticipantRole of the requester
BanRole(p, actor, target) ==
    /\ CanStart(p)
    /\ UNCHANGED <<campaign, participants, bans, responses, prizes, events, now, siblings, inbox, questions>>
    /\ IF ~CanBan(getParticipantRole(actor), actor)
       THEN Return(p, "ban", Err("Forbidden", "permission"))
       ELSE Goto(p, [pc |-> "ban_create", op |-> "ban", user |-> actor,
                     target |-> target])

\* waitlistBan.create; (campaignId, userId) is a unique key
BanCreate(p) ==
    /\ procs[p].pc = "ban_create"
    /\ UNCHANGED <<campaign, participants, responses, prizes, events, now, siblings, inbox, questions>>
    /\ LET target == procs[p].target IN
       IF target \in bans
       THEN /\ UNCHANGED bans
            /\ Return(p, "ban", StoreError("ban exists"))
       ELSE /\ bans' = bans \cup {target}
            /\ Goto(p, [procs[p] EXCEPT !.pc = "ban_delete"])

\* campaignParticipant.deleteMany
BanDelete(p) ==
    /\ procs[p].pc = "ban_delete"
    /\ UNCHANGED <<campaign, bans, responses, prizes, events, now, siblings, inbox, questions>>
    /\ participants' = [participants EXCEPT ![procs[p].target] = "NONE"]
    /\ Goto(p, [procs[p] EXCEPT !.pc = "ban_applications"])

\* campaignApplication.updateMany: rows of the CampaignApplication table, which
\* no operation of the service writes; WaitlistResponse rows are not touched.
BanApplications(p) ==
    /\ procs[p].pc = "ban_applications"
    /\ UNCHANGED <<campaign, participants, bans, responses, prizes, events, now, siblings, inbox, questions>>
    /\ Goto(p, [procs[p] EXCEPT !.pc = "ban_publish"])

\* publisher.publish(participantLeft)
BanPublish(p) ==
    /\ procs[p].pc = "ban_publish"
    /\ UNCHANGED <<campaign, participants, bans, responses, prizes, now, siblings, inbox, questions>>
    /\ Publish("participantLeft")
    /\ Return(p, "ban", Ok)

Ban(p) ==
    \/ \E actor \in Users, target \in Users : BanRole(p, actor, target)
    \/ BanCreate(p)
    \/ BanDelete(p)
    \/ BanApplications(p)
    \/ BanPublish(p)

----------------------------------------------------------------------------
(* manageParticipant(campaignId, targetUserId, action, user) *)

ManageActions == {"PROMOTE", "DEMOTE", "REMOVE"}

CanManage(role, actor) == role = "CREATOR" \/ IsStaff(actor)

ManageNewRole(action) == IF action = "PROMOTE" THEN "ADMIN" ELSE "MEMBER"

\* getParticipantRole of the requester
ManageRole(p, actor, target, action) ==
    /\ CanStart(p)
    /\ UNCHANGED <<campaign, participants, bans, responses, prizes, events, now, siblings, inbox, questions>>
    /\ IF ~CanManage(getParticipantRole(actor), actor)
       THEN Return(p, "manage", Err("Forbidden", "permission"))
       ELSE Goto(p, [pc |-> IF action = "REMOVE" THEN "manage_remove" ELSE "manage_update",
                     op |-> "manage", user |-> actor, target |-> target,
                     action |-> action])

\* REMOVE: return removeParticipant(campaignId, targetUserId, user)
ManageRemove(p) ==
    /\ procs[p].pc = "manage_remove"
    /\ RemoveCheck(p, "manage", procs[p].user, procs[p].target)

\* campaignParticipant.update role; fails when the row does not exist
ManageUpdate(p) ==
    /\ procs[p].pc = "manage_update"
    /\ UNCHANGED <<campaign, bans, responses, prizes, events, now, siblings, inbox, questions>>
    /\ LET target == procs[p].target IN
       IF participants[target] = "NONE"
       THEN /\ UNCHANGED participants
            /\ Return(p, "manage", StoreError("no participant"))
       ELSE /\ participants' = [participants EXCEPT ![target] =
                                   ManageNewRole(procs[p].action)]
            /\ Return(p, "manage", Ok)

Manage(p) ==
    \/ \E actor \in Users, target \in Users, action \in ManageActions :
          ManageRole(p, actor, target, action)
    \/ ManageRemove(p)
    \/ ManageUpdate(p)

----------------------------------------------------------------------------
(* reviewWaitlistResponse(campaignId, responseUserId, action, user, note?) *)

Decisions == {"APPROVED", "REJECTED"}

CanReview(role, actor) == role = "CREATOR" \/ role = "ADMIN" \/ IsStaff(actor)

\* getParticipantRole of the requester
ReviewRole(p, actor, target, action) ==
    /\ CanStart(p)
    /\ UNCHANGED <<campaign, participants, bans, responses, prizes, events, now, siblings, inbox, questions>>
    /\ IF ~CanReview(getParticipantRole(actor), actor)
       THEN Return(p, "review", Err("Forbidden", "permission"))
       ELSE Goto(p, [pc |-> "review_find", op |-> "review", user |-> actor,
                     target |-> target, action |-> action])

\* waitlistResponse.findUnique; none -> notFound
ReviewFind(p) ==
    /\ procs[p].pc = "review_find"
    /\ UNCHANGED <<campaign, participants, bans, responses, prizes, events, now, siblings, inbox, questions>>
    /\ IF responses[procs[p].target] = "NONE"
       THEN Return(p, "review", Err("NotFound", "response"))
       ELSE Goto(p, [procs[p] EXCEPT !.pc = "review_update"])

\* ReviewUpdate admitting the applicant as well when the decision is APPROVED.
ReviewUpdate_Admit(p) ==
    /\ procs[p].pc = "review_update"
    /\ UNCHANGED <<campaign, bans, prizes, events, now, siblings, inbox, questions>>
    /\ responses' = [responses EXCEPT ![procs[p].target] = procs[p].action]
    /\ participants' =
          [participants EXCEPT ![procs[p].target] =
              IF procs[p].action = "APPROVED" /\ @ = "PENDING" THEN "MEMBER" ELSE @]
    /\ Return(p, "review", Ok)

\* waitlistResponse.update status, reviewedBy, reviewedAt, note
ReviewUpdate(p) ==
    /\ procs[p].pc = "review_update"
    /\ UNCHANGED <<campaign, participants, bans, prizes, events, now, siblings, inbox, questions>>
    /\ IF responses[procs[p].target] = "NONE"
       THEN /\ UNCHANGED responses
            /\ Return(p, "review", StoreError("no response"))
       ELSE /\ responses' = [responses EXCEPT ![procs[p].target] = procs[p].action]
            /\ Return(p, "review", Ok)

Review(p) ==
    \/ \E actor \in Users, target \in Users, action \in Decisions :
          ReviewRole(p, actor, target, action)
    \/ ReviewFind(p)
    \/ ReviewUpdate(p)

----------------------------------------------------------------------------
(* setWaitlistQuestions(campaignId, questions, user), getWaitlistQuestions *)

MaxQuestions == 2

\* The questions argument: up to MaxQuestions entries, the text of the n-th
\* entry being the n-th text of the form, its order optional.
QuestionText(n) == <<"text", n>>

QuestionInputs ==
    UNION {{[k \in 1..n |-> [question |-> QuestionText(k), order |-> orders[k]]] :
               orders \in [1..n -> {Absent} \cup {Some(k) : k \in 1..MaxQuestions}]} :
              n \in 0..MaxQuestions}

CanSetQuestions(role, actor) == role = "CREATOR" \/ IsStaff(actor)

\* getParticipantRole of the requester
QuestionsRole(p, actor, input) ==
    /\ CanStart(p)
    /\ UNCHANGED <<campaign, participants, bans, responses, prizes, events, now,
                   siblings, inbox, questions>>
    /\ IF ~CanSetQuestions(getParticipantRole(actor), actor)
       THEN Return(p, "setQuestions", Err("Forbidden", "permission"))
       ELSE Goto(p, [pc |-> "questions_delete", op |-> "setQuestions",
                     user |-> actor, input |-> input, i |-> 1, created |-> << >>])

\* The value setWaitlistQuestions returns.
QuestionsResult(created) == [kind |-> "OK", msg |-> "", created |-> created]

\* waitlistQuestion.deleteMany; created = []; an empty input returns here
QuestionsDelete(p) ==
    /\ procs[p].pc = "questions_delete"
    /\ UNCHANGED <<campaign, participants, bans, responses, prizes, events, now,
                   siblings, inbox>>
    /\ questions' = << >>
    /\ IF Len(procs[p].input) = 0
       THEN Return(p, "setQuestions", QuestionsResult(<< >>))
       ELSE Goto(p, [procs[p] EXCEPT !.pc = "questions_create"])

\* waitlistQuestion.create with order ?? i + 1 (i counted from 0); push
QuestionsCreate(p) ==
    /\ procs[p].pc = "questions_create"
    /\ UNCHANGED <<campaign, participants, bans, responses, prizes, events, now,
                   siblings, inbox>>
    /\ LET i == procs[p].i
           q == [question |-> procs[p].input[i].question,
                 order |-> Coalesce(procs[p].input[i].order, i)]
           created == Append(procs[p].created, q) IN
       /\ questions' = Append(questions, q)
       /\ IF i = Len(procs[p].input)
          THEN Return(p, "setQuestions", QuestionsResult(created))
          ELSE Goto(p, [procs[p] EXCEPT !.i = i + 1, !.created = created])

SetQuestions(p) ==
    \/ \E actor \in Users, input \in QuestionInputs : QuestionsRole(p, actor, input)
    \/ QuestionsDelete(p)
    \/ QuestionsCreate(p)

\* waitlistQuestion.findMany orderBy order asc: every listing the store may
\* return, rows of equal order coming in any order.
getWaitlistQuestions ==
    LET n == Len(questions)
        perms == {f \in [1..n -> 1..n] : \A i, j \in 1..n : i # j => f[i] # f[j]}
    IN {[k \in 1..n |-> questions[f[k]]] : f \in
           {g \in perms : \A i, j \in 1..n :
               i < j => questions[g[i]].order <= questions[g[j]].order}}

----------------------------------------------------------------------------
(* Membership: the campaign has been published (status ACTIVE). *)

\* createCampaign called with the required fields alone.
PlainInputs ==
    [campaignType : {Absent}, editorSlots : {Absent}, totalBudget : {Absent},
     endDate : {1}]

CreateInputs ==
    [campaignType : {Absent} \cup {Some(t) : t \in CampaignTypes},
     editorSlots : {Some(n) : n \in 0..MaxSlots},
     totalBudget : {Absent},
     endDate : {1}]

InitMember == \E data \in CreateInputs : InitWith(data, "ACTIVE")

Membership(p) == Join(p) \/ Approve(p) \/ Remove(p) \/ Ban(p) \/ Manage(p)

\* One request at a time.
NextMemberSeq == Membership(1)
SpecMemberSeq == InitMember /\ [][NextMemberSeq]_vars

\* Concurrent join requests, interleaved at their awaits.
NextJoin == \E p \in Procs : Join(p)
SpecJoin == InitMember /\ [][NextJoin]_vars

\* Applications and their review, one request at a time.
NextReview == Join(1) \/ Review(1)
SpecReview == InitMember /\ [][NextReview]_vars

\* Concurrent setQuestions requests, interleaved at their awaits.
NextQuestions == \E p \in Procs : SetQuestions(p)
InitQuestions == \E data \in PlainInputs : InitWith(data, "ACTIVE")
SpecQuestions == InitQuestions /\ [][NextQuestions]_vars

\* Two join requests, interleaved at their awaits.
NextJoinPair == Join(1) \/ Join(2)
SpecJoinPair == InitMember /\ [][NextJoinPair]_vars

\* A join request and a ban request, interleaved at their awaits, on a
\* campaign as created (DRAFT) or published since (ACTIVE).
InitBanJoin ==
    \E data \in CreateInputs, status \in {"DRAFT", "ACTIVE"} : InitWith(data, status)
NextBanJoin == Join(1) \/ Ban(2)
SpecBanJoin == InitBanJoin /\ [][NextBanJoin]_vars

----------------------------------------------------------------------------
(* updateCampaign(id, data, user) *)

\* data without its prizeDistributions key
PatchFields(patch) == [f \in DOMAIN patch \ {"prizeDistributions"} |-> patch[f]]

\* prisma.campaign.update({ data }): every field of data is written as given
ApplyPatch(row, data) ==
    [f \in DOMAIN row |-> IF f \in DOMAIN data THEN data[f] ELSE row[f]]

\* getCampaign, with the permissions record
UpdateLoad(p, actor, patch) ==
    /\ CanStart(p)
    /\ UNCHANGED <<campaign, participants, bans, responses, prizes, events, now, siblings, inbox, questions>>
    /\ Goto(p, [pc |-> "update_role", op |-> "update", user |-> actor,
                patch |-> patch, snap |-> campaign, i |-> 0])

\* permissions?.adminsCanEditCampaign
AdminsCanEdit(row) ==
    row.permissions # Absent /\ The(row.permissions).adminsCanEditCampaign

\* The two permission checks of updateCampaign; TRUE when the update may go on.
CanUpdate(role, actor, row) ==
    /\ role = "CREATOR" \/ role = "ADMIN" \/ IsStaff(actor)
    /\ role = "ADMIN" => AdminsCanEdit(row)

\* campaignParticipant.findUnique of the requester; then the permission checks
UpdateRole(p) ==
    /\ procs[p].pc = "update_role"
    /\ UNCHANGED <<campaign, participants, bans, responses, prizes, events, now, siblings, inbox, questions>>
    /\ LET actor == procs[p].user IN
       IF ~CanUpdate(participants[actor], actor, procs[p].snap)
       THEN Return(p, "update", Err("Forbidden", "permission"))
       ELSE Goto(p, [procs[p] EXCEPT !.pc =
                IF "prizeDistributions" \in DOMAIN procs[p].patch
                THEN "update_prizes_delete" ELSE "update_write"])

\* prizeDistribution.deleteMany
UpdatePrizesDelete(p) ==
    /\ procs[p].pc = "update_prizes_delete"
    /\ UNCHANGED <<campaign, participants, bans, responses, events, now, siblings, inbox, questions>>
    /\ prizes' = << >>
    /\ Goto(p, [procs[p] EXCEPT !.pc =
           IF Len(procs[p].patch.prizeDistributions) > 0
           THEN "update_prizes_create" ELSE "update_write"])

\* prizeDistribution.create of rank i, at position i + 1
UpdatePrizesCreate(p) ==
    /\ procs[p].pc = "update_prizes_create"
    /\ UNCHANGED <<campaign, participants, bans, responses, events, now, siblings, inbox, questions>>
    /\ LET ranks == procs[p].patch.prizeDistributions
           i == procs[p].i
           rank == ranks[i + 1] IN
       /\ prizes' = Append(prizes, [position |-> i + 1, reward |-> rank.reward,
                                    label |-> rank.position])
       /\ Goto(p, [procs[p] EXCEPT !.i = i + 1,
                                   !.pc = IF i + 1 < Len(ranks)
                                          THEN "update_prizes_create"
                                          ELSE "update_write"])

\* data.status && data.status !== oldStatus
StatusChanged(data, oldStatus) ==
    "status" \in DOMAIN data /\ data.status # oldStatus

\* campaign.update with the rest of data
UpdateWrite(p) ==
    /\ procs[p].pc = "update_write"
    /\ UNCHANGED <<participants, bans, responses, prizes, events, now, siblings, inbox, questions>>
    /\ LET data == PatchFields(procs[p].patch) IN
       /\ campaign' = ApplyPatch(campaign, data)
       /\ IF StatusChanged(data, procs[p].snap.status)
          THEN Goto(p, [procs[p] EXCEPT !.pc = "update_publish"])
          ELSE Return(p, "update", Ok)

\* publisher.publish(statusChanged)
UpdatePublish(p) ==
    /\ procs[p].pc = "update_publish"
    /\ UNCHANGED <<campaign, participants, bans, responses, prizes, now, siblings, inbox, questions>>
    /\ Publish("statusChanged")
    /\ Return(p, "update", Ok)

----------------------------------------------------------------------------
(* closeCampaign(id, user) *)

\* Mutant of CloseLoad: the ENDED guard is missing.
CloseLoad_NoEndedGuard(p, actor) ==
    /\ CanStart(p)
    /\ UNCHANGED <<campaign, participants, bans, responses, prizes, events, now, siblings, inbox, questions>>
    /\ Goto(p, [pc |-> "close_role", op |-> "close", user |-> actor,
                snap |-> campaign])

\* getCampaign; already ENDED -> conflict
CloseLoad(p, actor) ==
    /\ CanStart(p)
    /\ UNCHANGED <<campaign, participants, bans, responses, prizes, events, now, siblings, inbox, questions>>
    /\ IF campaign.status = "ENDED"
       THEN Return(p, "close", Err("Conflict", "already ended"))
       ELSE Goto(p, [pc |-> "close_role", op |-> "close", user |-> actor,
                     snap |-> campaign])

\* CanClose letting an ADMIN close as well.
CanClose_AdminsToo(role, actor) == role = "CREATOR" \/ role = "ADMIN" \/ IsStaff(actor)

CanClose(role, actor) == role = "CREATOR" \/ IsStaff(actor)

\* campaignParticipant.findUnique of the requester
CloseRole(p) ==
    /\ procs[p].pc = "close_role"
    /\ UNCHANGED <<campaign, participants, bans, responses, prizes, events, now, siblings, inbox, questions>>
    /\ IF ~CanClose(participants[procs[p].user], procs[p].user)
       THEN Return(p, "close", Err("Forbidden", "permission"))
       ELSE Goto(p, [procs[p] EXCEPT !.pc = "close_write"])

\* campaign.update status ENDED, archivedAt new Date()
CloseWrite(p) ==
    /\ procs[p].pc = "close_write"
    /\ UNCHANGED <<participants, bans, responses, prizes, events, now, siblings, inbox, questions>>
    /\ campaign' = [campaign EXCEPT !.status = "ENDED", !.archivedAt = Some(now)]
    /\ Goto(p, [procs[p] EXCEPT !.pc = "close_publish"])

\* publisher.publish(ended, MANUAL)
ClosePublish(p) ==
    /\ procs[p].pc = "close_publish"
    /\ UNCHANGED <<campaign, participants, bans, responses, prizes, now, siblings, inbox, questions>>
    /\ Publish("endedManual")
    /\ Return(p, "close", Ok)

----------------------------------------------------------------------------
(* deleteCampaign(id, user) *)

\* getCampaign, with the permissions record
DeleteLoad(p, actor) ==
    /\ CanStart(p)
    /\ UNCHANGED <<campaign, participants, bans, responses, prizes, events, now, siblings, inbox, questions>>
    /\ Goto(p, [pc |-> "delete_role", op |-> "delete", user |-> actor,
                snap |-> campaign])

\* permissions?.adminsCanDeleteCampaign
AdminsCanDelete(row) ==
    row.permissions # Absent /\ The(row.permissions).adminsCanDeleteCampaign

\* The permission check of deleteCampaign; TRUE when the delete may go on.
CanDelete(role, actor, row) ==
    (role # "CREATOR" /\ ~IsStaff(actor)) => AdminsCanDelete(row)

\* campaignParticipant.findUnique of the requester; then the permission check
DeleteRole(p) ==
    /\ procs[p].pc = "delete_role"
    /\ UNCHANGED <<campaign, participants, bans, responses, prizes, events, now, siblings, inbox, questions>>
    /\ IF ~CanDelete(participants[procs[p].user], procs[p].user, procs[p].snap)
       THEN Return(p, "delete", Err("Forbidden", "permission"))
       ELSE Goto(p, [procs[p] EXCEPT !.pc = "delete_write"])

\* campaign.delete
DeleteWrite(p) ==
    /\ procs[p].pc = "delete_write"
    /\ UNCHANGED <<participants, bans, responses, prizes, events, now, siblings, inbox, questions>>
    /\ campaign' = [campaign EXCEPT !.deleted = TRUE]
    /\ Return(p, "delete", Ok)

----------------------------------------------------------------------------
(* POST /campaigns/:id/permissions *)

\* The request body: a value for each override the service reads.
PermissionInputs ==
    [adminsCanEditCampaign : BOOLEAN, adminsCanDeleteCampaign : BOOLEAN]

CanSetPermissions(role, actor) == role = "CREATOR" \/ IsStaff(actor)

\* getParticipantRole of the requester
PermissionsRole(p, actor, data) ==
    /\ CanStart(p)
    /\ UNCHANGED <<campaign, participants, bans, responses, prizes, events, now, siblings, inbox, questions>>
    /\ IF ~CanSetPermissions(getParticipantRole(actor), actor)
       THEN Return(p, "permissions", Err("Forbidden", "permission"))
       ELSE Goto(p, [pc |-> "permissions_upsert", op |-> "permissions",
                     user |-> actor, data |-> data])

\* campaignPermissions.upsert: update the record with data, or create it
PermissionsUpsert(p) ==
    /\ procs[p].pc = "permissions_upsert"
    /\ UNCHANGED <<participants, bans, responses, prizes, events, now, siblings, inbox, questions>>
    /\ campaign' = [campaign EXCEPT !.permissions = Some(procs[p].data)]
    /\ Return(p, "permissions", Ok)

----------------------------------------------------------------------------
(* fundCampaign(id, user) *)

CanFund(row, actor) == row.createdBy = actor \/ IsStaff(actor)

\* Mutant of PlatformFee: the tenth is truncated (Math.floor).
PlatformFee_Floor(totalBudget) == totalBudget \div 10

\* Math.round(totalBudget * 0.1): the nearest integer, halves rounded up
PlatformFee(totalBudget) == (totalBudget + 5) \div 10

\* getCampaign; the creator check; already funded -> conflict
FundLoad(p, actor) ==
    /\ CanStart(p)
    /\ UNCHANGED <<campaign, participants, bans, responses, prizes, events, now, siblings, inbox, questions>>
    /\ IF ~CanFund(campaign, actor)
       THEN Return(p, "fund", Err("Forbidden", "permission"))
       ELSE IF campaign.isFunded
       THEN Return(p, "fund", Err("Conflict", "already funded"))
       ELSE Goto(p, [pc |-> "fund_write", op |-> "fund", user |-> actor,
                     snap |-> campaign])

\* campaign.update isFunded, platformFee, remainingBudget from the row read
FundWrite(p) ==
    /\ procs[p].pc = "fund_write"
    /\ UNCHANGED <<participants, bans, responses, prizes, events, now, siblings, inbox, questions>>
    /\ LET total == procs[p].snap.totalBudget
           fee == PlatformFee(total) IN
       campaign' = [campaign EXCEPT !.isFunded = TRUE, !.platformFee = fee,
                                    !.remainingBudget = total - fee]
    /\ Goto(p, [procs[p] EXCEPT !.pc = "fund_publish"])

\* publisher.publish(funded)
FundPublish(p) ==
    /\ procs[p].pc = "fund_publish"
    /\ UNCHANGED <<campaign, participants, bans, responses, prizes, now, siblings, inbox, questions>>
    /\ Publish("funded")
    /\ Return(p, "fund", Ok)

----------------------------------------------------------------------------
(* autoCloseCampaigns() *)

\* campaign.findMany where status ACTIVE and endDate < now
Expired(row, at) == row.status = "ACTIVE" /\ row.endDate < at

\* The campaign followed in detail has id 0; the other rows of the table
\* have ids 1, 2, ...
MainId == 0
CampaignIds == {MainId} \cup DOMAIN siblings
CampaignRow(c) == IF c = MainId THEN campaign ELSE siblings[c]

\* The ids of S in the order findMany returns them.
RECURSIVE InIdOrder(_)
InIdOrder(S) ==
    IF S = {} THEN << >>
    ELSE LET c == CHOOSE x \in S : \A y \in S : x <= y IN <<c>> \o InIdOrder(S \ {c})

ExpiredCampaigns(at) == InIdOrder({c \in CampaignIds : Expired(CampaignRow(c), at)})

\* now = new Date(); findMany; closedCount = 0; nothing selected -> return 0
AutoCloseLoad(p) ==
    /\ CanStart(p)
    /\ UNCHANGED <<campaign, participants, bans, responses, prizes, events, now, siblings, inbox, questions>>
    /\ IF ExpiredCampaigns(now) = << >>
       THEN Return(p, "autoClose", [kind |-> "OK", msg |-> "", count |-> 0])
       ELSE Goto(p, [pc |-> "auto_write", op |-> "autoClose", at |-> now,
                     expiredCampaigns |-> ExpiredCampaigns(now), i |-> 1,
                     closedCount |-> 0])

\* The campaign of the current iteration of the loop.
AutoCloseCurrent(p) == procs[p].expiredCampaigns[procs[p].i]

\* The end of an iteration: on to the next campaign, or return closedCount.
AutoCloseNext(p, count) ==
    IF procs[p].i = Len(procs[p].expiredCampaigns)
    THEN Return(p, "autoClose", [kind |-> "OK", msg |-> "", count |-> count])
    ELSE Goto(p, [procs[p] EXCEPT !.pc = "auto_write", !.i = @ + 1,
                                  !.closedCount = count])

\* campaign.update status ENDED, archivedAt now
AutoCloseWrite(p) ==
    /\ procs[p].pc = "auto_write"
    /\ UNCHANGED <<participants, bans, responses, prizes, events, now, inbox, questions>>
    /\ LET c == AutoCloseCurrent(p) IN
       IF c = MainId
       THEN /\ campaign' = [campaign EXCEPT !.status = "ENDED",
                                            !.archivedAt = Some(procs[p].at)]
            /\ UNCHANGED siblings
       ELSE /\ siblings' = [siblings EXCEPT ![c].status = "ENDED",
                                            ![c].archivedAt = Some(procs[p].at)]
            /\ UNCHANGED campaign
    /\ Goto(p, [procs[p] EXCEPT !.pc = "auto_publish"])

\* AutoCloseWriteFail with the error leaving the loop.
AutoCloseWriteFail_Abort(p) ==
    /\ procs[p].pc = "auto_write"
    /\ UNCHANGED <<campaign, participants, bans, responses, prizes, events, now, siblings, inbox, questions>>
    /\ Return(p, "autoClose", StoreError("update failed"))

\* campaign.update throws: caught and logged, the loop goes on
AutoCloseWriteFail(p) ==
    /\ procs[p].pc = "auto_write"
    /\ UNCHANGED <<campaign, participants, bans, responses, prizes, events, now, siblings, inbox, questions>>
    /\ AutoCloseNext(p, procs[p].closedCount)

\* publisher.publish(ended, DATE_REACHED); closedCount++
AutoClosePublish(p) ==
    /\ procs[p].pc = "auto_publish"
    /\ UNCHANGED <<campaign, participants, bans, responses, prizes, now, inbox, questions>>
    /\ LET c == AutoCloseCurrent(p) IN
       IF c = MainId
       THEN Publish("endedDate") /\ UNCHANGED siblings
       ELSE /\ siblings' = [siblings EXCEPT ![c].endedEvents = @ + 1]
            /\ UNCHANGED events
    /\ AutoCloseNext(p, procs[p].closedCount + 1)

\* publisher.publish throws: caught and logged, the loop goes on
AutoClosePublishFail(p) ==
    /\ procs[p].pc = "auto_publish"
    /\ UNCHANGED <<campaign, participants, bans, responses, prizes, events, now, siblings, inbox, questions>>
    /\ AutoCloseNext(p, procs[p].closedCount)

\* Time passes.
Tick ==
    /\ now < MaxTime
    /\ now' = now + 1
    /\ UNCHANGED <<campaign, participants, bans, responses, prizes, events, procs, last,
                   siblings, inbox, questions>>

----------------------------------------------------------------------------
(* Lifecycle: from the state createCampaign leaves. *)

Budgets == {5, 1000}
Ranks == {<< >>, <<[position |-> "1st", reward |-> 50]>>}

Patches ==
    {[status |-> s] : s \in Statuses}
    \cup {[totalBudget |-> b] : b \in Budgets}
    \cup {[isFunded |-> FALSE]}
    \cup {[prizeDistributions |-> r] : r \in Ranks}

LifeInputs ==
    [campaignType : {Absent},
     editorSlots : {Absent},
     totalBudget : {Absent} \cup {Some(b) : b \in Budgets},
     endDate : {1}]

InitLife == \E data \in LifeInputs : InitWith(data, SchemaDefaults.status)

Update(p) ==
    \/ \E actor \in Users, patch \in Patches : UpdateLoad(p, actor, patch)
    \/ UpdateRole(p)
    \/ UpdatePrizesDelete(p)
    \/ UpdatePrizesCreate(p)
    \/ UpdateWrite(p)
    \/ UpdatePublish(p)

Close(p) ==
    \/ \E actor \in Users : CloseLoad(p, actor)
    \/ CloseRole(p)
    \/ CloseWrite(p)
    \/ ClosePublish(p)

Fund(p) ==
    \/ \E actor \in Users : FundLoad(p, actor)
    \/ FundWrite(p)
    \/ FundPublish(p)

AutoClose(p) ==
    \/ AutoCloseLoad(p)
    \/ AutoCloseWrite(p)
    \/ AutoClosePublish(p)

Lifecycle(p) == Update(p) \/ Close(p) \/ Fund(p) \/ AutoClose(p)

\* One request at a time.
NextLifeSeq == Lifecycle(1) \/ Tick
SpecLifeSeq == InitLife /\ [][NextLifeSeq]_vars

\* Concurrent fund, close and autoClose requests, interleaved at their awaits,
\* on a campaign as created or published since (status ACTIVE).
InitLifeConc == \E data \in LifeInputs, status \in {"DRAFT", "ACTIVE"} : InitWith(data, status)
NextLifeConc == (\E p \in Procs : Close(p) \/ Fund(p) \/ AutoClose(p)) \/ Tick
SpecLifeConc == InitLifeConc /\ [][NextLifeConc]_vars

\* A join request next to a close request or a sweep, interleaved at their
\* awaits.
NextJoinClose == Join(1) \/ Close(2) \/ AutoClose(2) \/ Tick
SpecJoinClose == InitMember /\ [][NextJoinClose]_vars

----------------------------------------------------------------------------
(* Permissions: a campaign whose team has been assembled.  The creator     *)
(* holds the CREATOR row; every other user has no row or the row that the  *)
(* membership operations left it (PENDING, MEMBER or ADMIN).               *)

TeamRoles == {"NONE", "PENDING", "MEMBER", "ADMIN"}

TeamInputs ==
    [campaignType : {Absent}, editorSlots : {Absent}, totalBudget : {Absent},
     endDate : {1}]

Teams ==
    {rows \in [Users -> TeamRoles \cup {"CREATOR"}] :
        \A u \in Users : rows[u] = "CREATOR" <=> u = CreatorId}

InitTeam ==
    /\ \E data \in TeamInputs, status \in {"DRAFT", "ACTIVE"} :
          campaign = [CreateCampaign(data, CreatorId) EXCEPT !.status = status]
    /\ participants \in Teams
    /\ bans = {}
    /\ responses = [u \in Users |-> "NONE"]
    /\ prizes = << >>
    /\ events = [t \in EventTypes |-> 0]
    /\ procs = [p \in Procs |-> Idle]
    /\ last = NoCall
    /\ now = 0
    /\ siblings = << >>
    /\ inbox = << >>
    /\ questions = << >>

Delete(p) ==
    \/ \E actor \in Users : DeleteLoad(p, actor)
    \/ DeleteRole(p)
    \/ DeleteWrite(p)

SetPermissions(p) ==
    \/ \E actor \in Users, data \in PermissionInputs : PermissionsRole(p, actor, data)
    \/ PermissionsUpsert(p)

\* Close, delete and permission requests, one at a time.
NextTeamClose == Close(1) \/ Delete(1) \/ SetPermissions(1)
SpecTeamClose == InitTeam /\ [][NextTeamClose]_vars

\* Update and permission requests, one at a time.
NextTeamUpdate == Update(1) \/ SetPermissions(1)
SpecTeamUpdate == InitTeam /\ [][NextTeamUpdate]_vars

----------------------------------------------------------------------------
(* The sweep over a table of several campaigns, with a store and a         *)
(* publisher that may fail.  A sibling row carries the columns the sweep   *)
(* reads and writes and the number of ended events published for it.       *)

MaxSiblings == 2

SiblingRows ==
    {[status |-> st, endDate |-> e,
      archivedAt |-> IF st = "ENDED" THEN Some(0) ELSE Absent,
      endedEvents |-> IF st = "ENDED" THEN 1 ELSE 0] :
        st \in Statuses, e \in {1, MaxTime}}

InitSweep ==
    /\ \E data \in TeamInputs, status \in {"DRAFT", "ACTIVE"} :
          campaign = [CreateCampaign(data, CreatorId) EXCEPT !.status = status]
    /\ participants = CreatorRows(CreatorId)
    /\ bans = {}
    /\ responses = [u \in Users |-> "NONE"]
    /\ prizes = << >>
    /\ events = [t \in EventTypes |-> 0]
    /\ procs = [p \in Procs |-> Idle]
    /\ last = NoCall
    /\ now = 0
    /\ siblings \in [1..MaxSiblings -> SiblingRows]
    /\ inbox = << >>
    /\ questions = << >>

\* The steps of a sweep after its findMany.
SweepStep(p) ==
    \/ AutoCloseWrite(p)
    \/ AutoCloseWriteFail(p)
    \/ AutoClosePublish(p)
    \/ AutoClosePublishFail(p)

\* One sweep at a time, as the scheduler starts them.  Every awaited call of
\* a sweep comes back, with a result or with an error.
NextSweep == AutoCloseLoad(1) \/ SweepStep(1) \/ Tick
SpecSweep == InitSweep /\ [][NextSweep]_vars /\ WF_vars(SweepStep(1))

----------------------------------------------------------------------------
(* Event handlers of the campaign.events queue (setupEventHandlers).       *)
(*                                                                         *)
(* A message is a source event of the clip service for the campaign.  The  *)
(* transport delivers it to its handler; a delivery that ends without an   *)
(* acknowledgment leaves the message in the queue, to be delivered again.  *)
(* The counter write and the acknowledgment are calls to two different     *)
(* systems, the store and the transport, and are separate steps.           *)

MaxMsgs == 2
MaxDeliveries == 2

Msgs == 1..MaxMsgs

ClipEventTypes == {"clip.approved", "clip.rejected", "clip.submitted"}
RoutingKeys == ClipEventTypes \cup {"stats.updated"}

\* CounterOf with every clip event counted as approved.
CounterOf_Approved(type) == "approvedClips"

\* The counter column each clip event increments.
CounterOf(type) ==
    CASE type = "clip.approved" -> "approvedClips"
      [] type = "clip.rejected" -> "rejectedClips"
      [] type = "clip.submitted" -> "pendingClips"

\* A message as published: queued, never delivered, nothing written for it.
NewMessage(type) ==
    [type |-> type, state |-> "queued", deliveries |-> 0, writes |-> 0]

\* The transport hands a queued message to its handler.
CanDeliver(m) == inbox[m].state = "queued" /\ inbox[m].deliveries < MaxDeliveries

\* clip.* handler: campaign.update({ <counter>: { increment: 1 } }) succeeds
HandlerWrite(m) ==
    /\ CanDeliver(m)
    /\ inbox[m].type \in ClipEventTypes
    /\ campaign' = [campaign EXCEPT ![CounterOf(inbox[m].type)] = @ + 1]
    /\ inbox' = [inbox EXCEPT ![m].state = "written", ![m].deliveries = @ + 1,
                              ![m].writes = @ + 1]
    /\ UNCHANGED <<participants, bans, responses, prizes, events, procs, last, now,
                   siblings, questions>>

\* HandlerWriteFail with the error swallowed and the message acknowledged.
HandlerWriteFail_Ack(m) ==
    /\ CanDeliver(m)
    /\ inbox[m].type \in ClipEventTypes
    /\ inbox' = [inbox EXCEPT ![m].state = "acked", ![m].deliveries = @ + 1]
    /\ UNCHANGED <<campaign, participants, bans, responses, prizes, events, procs,
                   last, now, siblings, questions>>

\* clip.* handler: campaign.update throws; the handler raises before ctx.ack()
HandlerWriteFail(m) ==
    /\ CanDeliver(m)
    /\ inbox[m].type \in ClipEventTypes
    /\ inbox' = [inbox EXCEPT ![m].deliveries = @ + 1]
    /\ UNCHANGED <<campaign, participants, bans, responses, prizes, events, procs,
                   last, now, siblings, questions>>

\* clip.* handler: ctx.ack() after the awaited update
HandlerAck(m) ==
    /\ inbox[m].state = "written"
    /\ inbox' = [inbox EXCEPT ![m].state = "acked"]
    /\ UNCHANGED <<campaign, participants, bans, responses, prizes, events, procs,
                   last, now, siblings, questions>>

\* stats.updated handler: logs and acknowledges
HandlerStats(m) ==
    /\ CanDeliver(m)
    /\ inbox[m].type = "stats.updated"
    /\ inbox' = [inbox EXCEPT ![m].state = "acked", ![m].deliveries = @ + 1]
    /\ UNCHANGED <<campaign, participants, bans, responses, prizes, events, procs,
                   last, now, siblings, questions>>

\* The delivery ends before its acknowledgment reaches the transport (the
\* consumer stops or loses its connection): the message is queued again.
Redeliver(m) ==
    /\ inbox[m].state = "written"
    /\ inbox' = [inbox EXCEPT ![m].state = "queued"]
    /\ UNCHANGED <<campaign, participants, bans, responses, prizes, events, procs,
                   last, now, siblings, questions>>

InitEvents ==
    /\ \E data \in TeamInputs :
          campaign = [CreateCampaign(data, CreatorId) EXCEPT !.status = "ACTIVE"]
    /\ participants = CreatorRows(CreatorId)
    /\ bans = {}
    /\ responses = [u \in Users |-> "NONE"]
    /\ prizes = << >>
    /\ events = [t \in EventTypes |-> 0]
    /\ procs = [p \in Procs |-> Idle]
    /\ last = NoCall
    /\ now = 0
    /\ siblings = << >>
    /\ inbox \in [Msgs -> {NewMessage(t) : t \in RoutingKeys}]
    /\ questions = << >>

\* Handlers run concurrently, one delivery of a message at a time.
Handler(m) ==
    \/ HandlerWrite(m)
    \/ HandlerWriteFail(m)
    \/ HandlerAck(m)
    \/ HandlerStats(m)
    \/ Redeliver(m)

NextEvents == \E m \in Msgs : Handler(m)
SpecEvents == InitEvents /\ [][NextEvents]_vars

\* The clips the messages of the queue are about.
MaxClips == 2
Clips == 1..MaxClips

\* A clip message as published, with the clip it is about.
NewClipMessage(type, clip) ==
    [type |-> type, clip |-> clip, state |-> "queued", deliveries |-> 0, writes |-> 0]

\* What the clip service publishes for its clips, in the order published: a
\* clip is submitted once, and reviewed (approved or rejected) at most once,
\* after its submission.
ClipHistories ==
    {h \in [Msgs -> {NewClipMessage(t, c) : t \in ClipEventTypes, c \in Clips}] :
        \A m \in Msgs :
            /\ \A k \in Msgs : (k # m /\ h[k].clip = h[m].clip)
                   => (h[k].type = "clip.submitted") # (h[m].type = "clip.submitted")
            /\ h[m].type # "clip.submitted"
                   => \E k \in 1..(m - 1) :
                         h[k].clip = h[m].clip /\ h[k].type = "clip.submitted"}

InitClips ==
    /\ \E data \in CreateInputs :
          campaign = [CreateCampaign(data, CreatorId) EXCEPT !.status = "ACTIVE"]
    /\ participants = CreatorRows(CreatorId)
    /\ bans = {}
    /\ responses = [u \in Users |-> "NONE"]
    /\ prizes = << >>
    /\ events = [t \in EventTypes |-> 0]
    /\ procs = [p \in Procs |-> Idle]
    /\ last = NoCall
    /\ now = 0
    /\ siblings = << >>
    /\ inbox \in ClipHistories
    /\ questions = << >>

\* Every message is delivered once, its write and its acknowledgment succeed.
NextClips == \E m \in Msgs : HandlerWrite(m) \/ HandlerAck(m)
SpecClips == InitClips /\ [][NextClips]_vars

\* GET /campaigns/:id/stats: totalSubmissions of the response
totalSubmissions ==
    campaign.approvedClips + campaign.pendingClips + campaign.rejectedClips

----------------------------------------------------------------------------
(* Properties.                                                             *)

Members == {u \in Users : participants[u] = "MEMBER"}

\* The store is as a run of join calls alone leaves it: nobody was banned,
\* removed or given another role, and every admitted member was announced.
OnlyJoinsSoFar ==
    /\ bans = {}
    /\ events["participantLeft"] = 0
    /\ participants[CreatorId] = "CREATOR"
    /\ \A u \in Users \ {CreatorId} : participants[u] \in {"NONE", "MEMBER"}
    /\ events["participantJoined"] = Cardinality(Members)

(* C1: in an ACTIVE AUTO_JOIN campaign with editorSlots = N on which only  *)
(* joins have run, one request at a time, a join is refused as full only   *)
(* once N users have joined as MEMBER, and no more than N ever join.       *)
C1_NJoinsSucceed ==
    (/\ campaign.campaignType = "AUTO_JOIN"
     /\ campaign.status = "ACTIVE"
     /\ OnlyJoinsSoFar
     /\ InFlight = {}
     /\ last.op = "join")
    => /\ last.result = Err("Forbidden", "full")
             => Cardinality(Members) = campaign.editorSlots
       /\ Cardinality(Members) <= campaign.editorSlots

(* C2: under every interleaving of concurrent joins on an AUTO_JOIN        *)
(* campaign (with at least the creator's slot), the number of participant  *)
(* rows never exceeds editorSlots.                                         *)
C2_CapacityNeverExceeded ==
    (campaign.campaignType = "AUTO_JOIN" /\ campaign.editorSlots >= 1)
    => ParticipantCount <= campaign.editorSlots

\* The store after user a applied with answers to a WAITLIST campaign of two
\* slots whose only other participant is the creator.
C3_Scenario(a) ==
    /\ campaign.campaignType = "WAITLIST"
    /\ campaign.status = "ACTIVE"
    /\ campaign.editorSlots = 2
    /\ participants = [u \in Users |-> IF u = CreatorId THEN "CREATOR"
                                       ELSE IF u = a THEN "PENDING" ELSE "NONE"]
    /\ responses[a] = "PENDING"
    /\ bans = {}

(* C3: in that scenario approve(A) by the creator passes its permission    *)
(* and capacity checks and goes on to promote A: the creator's row and     *)
(* PENDING rows do not consume capacity.                                   *)
C3_CreatorApprovesApplicant ==
    [][\A a \in Users \ {CreatorId} :
          (/\ C3_Scenario(a)
           /\ procs[1].pc = "approve_role"
           /\ procs[1].user = CreatorId
           /\ procs[1].target = a)
          => procs'[1].pc = "approve_update"]_vars

(* C4: after any sequence of join, approve, remove, ban and manage calls   *)
(* the campaign has exactly one CREATOR row, the row of its creator.       *)
C4_ExactlyOneCreator ==
    /\ participants[CreatorId] = "CREATOR"
    /\ \A u \in Users \ {CreatorId} : participants[u] # "CREATOR"

(* C5: every change of the stored status is DRAFT to ACTIVE or ACTIVE to   *)
(* ENDED.                                                                  *)
C5_StatusMovesForward ==
    [][campaign'.status # campaign.status
          => <<campaign.status, campaign'.status>>
                \in {<<"DRAFT", "ACTIVE">>, <<"ACTIVE", "ENDED">>}]_vars

\* fee is the integer nearest to a tenth of total, halves rounded up
NearestTenth(fee, total) == 10 * fee - total \in -4..5

\* What a fund call that returned OK leaves in the store.
C6_Funded ==
    (InFlight = {} /\ last.op = "fund" /\ last.result = Ok)
    => /\ campaign.isFunded
       /\ NearestTenth(campaign.platformFee, campaign.totalBudget)
       /\ campaign.remainingBudget = campaign.totalBudget - campaign.platformFee

(* C6: with one request at a time, fund by the creator on an unfunded      *)
(* campaign goes through: it stores isFunded, the fee (nearest integer to  *)
(* 10% of totalBudget) and remainingBudget = totalBudget - fee, publishes  *)
(* one funded event and returns OK; fund by the creator on a funded        *)
(* campaign fails Conflict and changes neither the campaign nor the        *)
(* events.                                                                 *)
C6_FundTwice ==
    [][/\ (FundLoad(1, CreatorId) /\ ~campaign.isFunded)
             => procs'[1].pc = "fund_write" /\ UNCHANGED <<campaign, events>>
       /\ FundWrite(1)
             => /\ campaign'.isFunded
                /\ NearestTenth(campaign'.platformFee, campaign.totalBudget)
                /\ campaign'.remainingBudget =
                      campaign.totalBudget - campaign'.platformFee
                /\ procs'[1].pc = "fund_publish"
       /\ FundPublish(1)
             => /\ last'.result = Ok
                /\ events'["funded"] = events["funded"] + 1
                /\ UNCHANGED campaign
       /\ C6_Funded'
       /\ (FundLoad(1, CreatorId) /\ campaign.isFunded)
             => /\ last' = [op |-> "fund", result |-> Err("Conflict", "already funded")]
                /\ UNCHANGED <<campaign, events>>]_vars

\* A second fund call failed Conflict after the first one funded a budget of 5.
C6_Witness ==
    /\ last = [op |-> "fund", result |-> Err("Conflict", "already funded")]
    /\ events["funded"] = 1
    /\ campaign.isFunded
    /\ campaign.totalBudget = 5
    /\ campaign.platformFee = 1
    /\ campaign.remainingBudget = 4

(* C7: under every interleaving of concurrent fund calls at most one       *)
(* funded event is published for the campaign.                             *)
C7_FundedOnce == events["funded"] <= 1

(* C8: once funded, remainingBudget = totalBudget - platformFee holds and  *)
(* isFunded stays true, across fund, update and close.                     *)
C8_FundedBudgetKept ==
    [][/\ campaign.isFunded => campaign'.isFunded
       /\ campaign'.isFunded
             => campaign'.remainingBudget =
                   campaign'.totalBudget - campaign'.platformFee]_vars

\* What a close call that returned OK leaves in the store.
C9_Closed ==
    (InFlight = {} /\ last.op = "close" /\ last.result = Ok)
    => campaign.status = "ENDED" /\ campaign.archivedAt # Absent

(* C9: with one request at a time, close by the creator on a campaign that *)
(* is not ENDED goes through: it sets status ENDED and the closure         *)
(* timestamp, publishes one ended event and returns OK; close by the       *)
(* creator on an ENDED campaign fails Conflict and changes neither the     *)
(* campaign nor the events.                                                *)
C9_CloseTwice ==
    [][/\ (CloseLoad(1, CreatorId) /\ campaign.status # "ENDED")
             => procs'[1].pc = "close_role"
       /\ (CloseRole(1) /\ procs[1].user = CreatorId)
             => procs'[1].pc = "close_write"
       /\ CloseWrite(1)
             => /\ campaign'.status = "ENDED"
                /\ campaign'.archivedAt = Some(now)
                /\ procs'[1].pc = "close_publish"
       /\ ClosePublish(1)
             => /\ last'.result = Ok
                /\ events'["endedManual"] = events["endedManual"] + 1
                /\ UNCHANGED campaign
       /\ C9_Closed'
       /\ (CloseLoad(1, CreatorId) /\ campaign.status = "ENDED")
             => /\ last' = [op |-> "close", result |-> Err("Conflict", "already ended")]
                /\ UNCHANGED <<campaign, events>>]_vars

\* A second close call failed Conflict after the first one ended the campaign.
C9_Witness ==
    /\ last = [op |-> "close", result |-> Err("Conflict", "already ended")]
    /\ events["endedManual"] = 1
    /\ events["endedDate"] = 0
    /\ events["statusChanged"] = 0
    /\ campaign.status = "ENDED"
    /\ campaign.archivedAt # Absent

(* C10: under every interleaving of concurrent close calls and autoClose   *)
(* sweeps one of them alone ends the campaign: at most one ended event is  *)
(* published for it.                                                       *)
C10_EndedOnce == events["endedManual"] + events["endedDate"] <= 1

\* Ended events published for the campaign, by close and by the sweep.
EndedEvents == events["endedManual"] + events["endedDate"]

(* C11: once no request is in flight, a campaign whose status is ENDED,    *)
(* whichever operation wrote that status, has exactly one ended event      *)
(* published for it.                                                       *)
C11_EndedHasOneEvent ==
    (campaign.status = "ENDED" /\ InFlight = {}) => EndedEvents = 1

\* A step of request 1's join call for user u, up to and including its ban
\* lookup, taken while a ban record for u exists.
BannedJoinStep(u) ==
    /\ u \in bans
    /\ \/ \E answers \in BOOLEAN : JoinLoad(1, u, answers)
       \/ /\ procs[1].pc \in {"join_existing", "join_banned"}
          /\ procs[1].user = u
          /\ Join(1)

\* The step of request p returned to the caller.
Returned(p) == procs'[p].pc = "idle"

(* C12 as stated: while a ban record for the user exists, the user's join  *)
(* inserts no participant row and, when it returns, has failed with        *)
(* Forbidden, whatever the campaign's type, status and capacity and        *)
(* whether or not the user has a participant row.                          *)
C12_BannedJoinForbidden ==
    [][\A u \in Users :
          BannedJoinStep(u) =>
              /\ participants' = participants
              /\ Returned(1) => last'.result.kind = "Forbidden"]_vars

(* C12 amended: while a ban record for the user exists, the user's join    *)
(* never gets to insert a participant row and fails for every campaign     *)
(* type, status and capacity: with BadRequest when the campaign is not     *)
(* ACTIVE, with Conflict when the user still has a participant row, and    *)
(* with Forbidden (banned) otherwise.                                      *)
C12_BannedJoinFails ==
    [][\A u \in Users :
          BannedJoinStep(u) =>
              /\ participants' = participants
              /\ procs'[1].pc \in {"idle", "join_existing", "join_banned"}
              /\ Returned(1) =>
                    last'.result =
                        IF procs[1].pc = "idle"
                        THEN Err("BadRequest", "not active")
                        ELSE IF procs[1].pc = "join_existing"
                        THEN Err("Conflict", "already a participant")
                        ELSE Err("Forbidden", "banned")
              /\ (procs[1].pc = "idle" /\ campaign.status # "ACTIVE") => Returned(1)
              /\ (procs[1].pc = "join_existing" /\ participants[u] # "NONE")
                    => Returned(1)
              /\ procs[1].pc = "join_banned" => Returned(1)]_vars

\* A banned user's join was refused as banned while the ban request that
\* created the record was still running.
C12_Witness ==
    /\ last = [op |-> "join", result |-> Err("Forbidden", "banned")]
    /\ procs[1].pc = "idle"
    /\ procs[2].pc = "ban_delete"
    /\ procs[2].target \in bans

(* C13: when a ban returns, one request at a time, the target has a ban    *)
(* record and no participant row, and a waitlist application of the target *)
(* is not left PENDING: the ban has turned it REJECTED.                    *)
C13_BanRejectsPending ==
    [][BanPublish(1) =>
          LET target == procs[1].target IN
          /\ target \in bans'
          /\ participants'[target] = "NONE"
          /\ responses'[target] \in {"NONE", "REJECTED", "APPROVED"}]_vars

\* What the contract grants: the creator, staff, and an ADMIN under the
\* override that covers the operation.
Authorized(actor, override) ==
    \/ participants[actor] = "CREATOR"
    \/ IsStaff(actor)
    \/ participants[actor] = "ADMIN" /\ override

(* C14: an update is refused as Forbidden exactly when the actor is        *)
(* neither the creator, nor staff (whatever role the staff user holds),    *)
(* nor an ADMIN with adminsCanEditCampaign set; a refused update leaves    *)
(* the campaign row and the prize rows unchanged.                          *)
C14_UpdateAuthorized ==
    [][UpdateRole(1) =>
          LET refused == Returned(1) /\ last'.result.kind = "Forbidden" IN
          /\ refused <=> ~Authorized(procs[1].user, AdminsCanEdit(campaign))
          /\ refused => campaign' = campaign /\ prizes' = prizes]_vars

(* C15: only the creator, staff, or an ADMIN with adminsCanDeleteCampaign  *)
(* set gets to delete the campaign; a MEMBER, a PENDING participant and a  *)
(* non-participant never do, whatever the overrides are.                   *)
C15_DeleteAuthorized ==
    [][DeleteWrite(1) => Authorized(procs[1].user, AdminsCanDelete(campaign))]_vars

\* Every override of the permissions record is set.
AllOverridesSet ==
    /\ campaign.permissions # Absent
    /\ \A f \in DOMAIN The(campaign.permissions) : The(campaign.permissions)[f]

(* C16: a close of a campaign that is not ENDED, by an actor who is        *)
(* neither the creator nor staff, is refused as Forbidden whatever role    *)
(* and overrides the actor has, and leaves the campaign row (status,       *)
(* archivedAt) and the published events unchanged; only the creator and    *)
(* staff get to the status write and the ended event.                      *)
C16_CloseForbidden ==
    [][/\ CloseRole(1) =>
             LET actor == procs[1].user IN
             (participants[actor] # "CREATOR" /\ ~IsStaff(actor))
             => /\ Returned(1)
                /\ last' = [op |-> "close", result |-> Err("Forbidden", "permission")]
                /\ campaign' = campaign
                /\ events' = events
       /\ (CloseWrite(1) \/ ClosePublish(1)) =>
             LET actor == procs[1].user IN
             participants[actor] = "CREATOR" \/ IsStaff(actor)]_vars

\* An ADMIN's close was refused while every override was set: every user
\* other than the creator and staff is an ADMIN.
C16_Witness ==
    /\ last = [op |-> "close", result |-> Err("Forbidden", "permission")]
    /\ InFlight = {}
    /\ AllOverridesSet
    /\ campaign.status # "ENDED"
    /\ campaign.archivedAt = Absent
    /\ \A u \in Users : (u # CreatorId /\ ~IsStaff(u)) => participants[u] = "ADMIN"

\* The row of campaign c after the step.
CampaignRowAfter(c) == IF c = MainId THEN campaign' ELSE siblings'[c]

(* C17: a campaign whose processing fails in a sweep, at the status write  *)
(* or at the publish, is still ACTIVE afterwards, and the count a sweep    *)
(* returns is the number of campaigns it changed to ENDED.                 *)
C17_FailedStaysActive ==
    [][/\ (AutoCloseWriteFail(1) \/ AutoClosePublishFail(1))
             => CampaignRowAfter(AutoCloseCurrent(1)).status = "ACTIVE"
       /\ (SweepStep(1) /\ Returned(1))
             => last'.result.count =
                   Cardinality({k \in DOMAIN procs[1].expiredCampaigns :
                       CampaignRowAfter(procs[1].expiredCampaigns[k]).status = "ENDED"})]_vars

\* What a step may do to the campaigns, and how a sweep moves through its
\* selection.
SweepStepsInOrder ==
    /\ \A c \in CampaignIds :
          CampaignRowAfter(c) # CampaignRow(c)
          => /\ procs[1].pc \in {"auto_write", "auto_publish"}
             /\ c = AutoCloseCurrent(1)
             /\ CampaignRow(c).endDate < procs[1].at
             /\ procs[1].pc = "auto_write" => CampaignRow(c).status = "ACTIVE"
             /\ CampaignRowAfter(c).status = "ENDED"
    /\ AutoCloseLoad(1)
          => \A c \in CampaignIds :
                Expired(CampaignRow(c), now)
                => /\ ~Returned(1)
                   /\ \E k \in DOMAIN procs'[1].expiredCampaigns :
                         procs'[1].expiredCampaigns[k] = c
    /\ (AutoCloseWriteFail(1) \/ AutoClosePublishFail(1) \/ AutoClosePublish(1))
          => IF procs[1].i < Len(procs[1].expiredCampaigns)
             THEN /\ procs'[1].pc = "auto_write"
                  /\ procs'[1].i = procs[1].i + 1
                  /\ procs'[1].expiredCampaigns = procs[1].expiredCampaigns
             ELSE Returned(1)
    /\ AutoCloseWrite(1) => procs'[1].pc = "auto_publish"

(* C18: a sweep changes only campaigns it selected, which are ACTIVE with  *)
(* an end date before the sweep's start; it goes through the whole         *)
(* selection, a failed write or publish moving it on to the next campaign, *)
(* and returns only from the last one; and every sweep returns.            *)
C18_SweepCoversSelection ==
    /\ [][SweepStepsInOrder]_vars
    /\ (procs[1].pc # "idle") ~> (procs[1].pc = "idle")

\* A sweep of two campaigns has returned after the write of the first one
\* failed: the first is still ACTIVE and the second was closed.
C18_Witness ==
    /\ last = [op |-> "autoClose", result |-> [kind |-> "OK", msg |-> "", count |-> 1]]
    /\ procs[1].pc = "idle"
    /\ campaign.status = "ACTIVE" /\ campaign.endDate < now
    /\ \E c \in DOMAIN siblings :
          /\ siblings[c].status = "ENDED"
          /\ siblings[c].archivedAt = Some(now)
          /\ siblings[c].endedEvents = 1

\* The clip messages of the queue.
ClipMessages == {m \in DOMAIN inbox : inbox[m].type \in ClipEventTypes}

(* C19: a clip message is acknowledged only after a counter write for it   *)
(* has succeeded, in the delivery being acknowledged; a delivery whose     *)
(* write fails changes no counter and leaves the message unacknowledged,   *)
(* in the queue.                                                           *)
C19_AckAfterWrite ==
    [][\A m \in ClipMessages :
          /\ (inbox'[m].state = "acked" /\ inbox[m].state # "acked")
                => inbox[m].state = "written" /\ inbox[m].writes >= 1
          /\ HandlerWriteFail(m)
                => inbox'[m].state = "queued" /\ campaign' = campaign]_vars

\* One clip message is acknowledged after its write, and the write for
\* another has failed in every delivery: it is still queued, nothing written.
C19_Witness ==
    \E m1, m2 \in ClipMessages :
        /\ inbox[m1].state = "acked" /\ inbox[m1].writes = 1
        /\ inbox[m2].state = "queued" /\ inbox[m2].writes = 0
        /\ inbox[m2].deliveries = MaxDeliveries

\* The distinct source events of a type whose counter write has succeeded.
Processed(type) == {m \in DOMAIN inbox : inbox[m].type = type /\ inbox[m].writes >= 1}

(* C20: handling a clip event more than once has the effect of handling it *)
(* once: each counter equals the number of distinct source events of its   *)
(* type that have been processed.                                          *)
C20_CountersCountEvents ==
    \A type \in ClipEventTypes :
        campaign[CounterOf(type)] = Cardinality(Processed(type))

\* The counter the contract assigns to a clip event.
OwnCounter ==
    [t \in ClipEventTypes |->
        IF t = "clip.submitted" THEN "pendingClips"
        ELSE IF t = "clip.approved" THEN "approvedClips" ELSE "rejectedClips"]

(* C21: the counter write of a clip.submitted, clip.approved or            *)
(* clip.rejected message adds 1 to pendingClips, approvedClips or          *)
(* rejectedClips respectively and changes no other field of the campaign   *)
(* row (the other counters, totalViews, status, budget); its               *)
(* acknowledgment changes nothing of the row; a stats.updated message is   *)
(* acknowledged and changes no field.                                      *)
C21_HandlerFrame ==
    [][\A m \in Msgs :
          /\ HandlerWrite(m)
                => \A f \in DOMAIN campaign :
                      campaign'[f] = IF f = OwnCounter[inbox[m].type]
                                     THEN campaign[f] + 1 ELSE campaign[f]
          /\ HandlerAck(m) => campaign' = campaign
          /\ HandlerStats(m) => campaign' = campaign /\ inbox'[m].state = "acked"
          /\ (inbox[m].type = "stats.updated" /\ inbox'[m] # inbox[m])
                => HandlerStats(m)]_vars

\* A rejected clip and a stats update have both been handled and
\* acknowledged.
C21_Witness ==
    \E m1, m2 \in Msgs :
        /\ inbox[m1] = [type |-> "clip.rejected", state |-> "acked",
                        deliveries |-> 1, writes |-> 1]
        /\ inbox[m2].type = "stats.updated" /\ inbox[m2].state = "acked"
        /\ campaign.rejectedClips = 1
        /\ campaign.approvedClips = 0 /\ campaign.pendingClips = 0

\* A step of request 1's join call for user u with the given answers, on an
\* ACTIVE WAITLIST campaign, u being not banned and, until the call inserts
\* it, without a participant row.
WaitlistJoinStep(u, answers) ==
    /\ campaign.campaignType = "WAITLIST"
    /\ campaign.status = "ACTIVE"
    /\ u \notin bans
    /\ \/ participants[u] = "NONE" /\ JoinLoad(1, u, answers)
       \/ /\ procs[1].pc \in {"join_existing", "join_banned", "join_create"}
          /\ procs[1].user = u /\ procs[1].answers = answers
          /\ participants[u] = "NONE"
          /\ Join(1)
       \/ /\ procs[1].pc \in {"join_response", "join_publish"}
          /\ procs[1].user = u /\ procs[1].answers = answers
          /\ Join(1)

(* C22: one request at a time, a join on an ACTIVE WAITLIST campaign by a  *)
(* user who is not banned and has no participant row succeeds whatever the *)
(* participant count and editorSlots are: it returns only with OK, inserts *)
(* the row as PENDING, and by its return the user's WaitlistResponse is    *)
(* PENDING if answers were supplied and untouched if not.                  *)
C22_WaitlistJoinSucceeds ==
    [][\A u \in Users, answers \in BOOLEAN :
          WaitlistJoinStep(u, answers) =>
              /\ Returned(1) => /\ last'.result = Ok
                                /\ participants'[u] = "PENDING"
                                /\ answers => responses'[u] = "PENDING"
              /\ ~answers => responses' = responses]_vars

\* The requests past their insert, on the way to publishing the join.
Inserted == {p \in Procs : procs[p].pc \in {"join_response", "join_publish"}}

(* C23: under every interleaving of two join calls, also by the same user, *)
(* an insert for a user who already has a participant row fails, changes   *)
(* no row and publishes nothing, so that of two joins by one user at most  *)
(* one inserts the row, and every row other than the creator's was         *)
(* inserted by exactly one call, which publishes its one                   *)
(* participantJoined event.                                                *)
C23_OneRowPerUser ==
    [][/\ \A p \in Procs :
             (JoinCreate(p) /\ participants[procs[p].user] # "NONE")
             => /\ Returned(p)
                /\ last' = [op |-> "join", result |-> StoreError("participant exists")]
                /\ participants' = participants
                /\ events' = events
       /\ \A p, q \in Procs :
             (p # q /\ JoinCreate(p) /\ participants[procs[p].user] = "NONE")
             => /\ participants'[procs[p].user] # "NONE"
                /\ q \notin Inserted \/ procs[q].user # procs[p].user
       /\ events'["participantJoined"] + Cardinality(Inserted')
             = ParticipantCount' - 1]_vars

\* The second of two joins by one user has lost the insert while the first
\* has yet to publish.
C23_Witness ==
    /\ last = [op |-> "join", result |-> StoreError("participant exists")]
    /\ procs[2].pc = "idle"
    /\ procs[1].pc = "join_publish"
    /\ participants[procs[1].user] # "NONE"
    /\ events["participantJoined"] = 0

(* C24: a review changes nothing but the WaitlistResponse of its target:  *)
(* no participant row, no other response, no campaign field, ban, prize    *)
(* or event; a review that finds no response for the target fails with     *)
(* NotFound and changes nothing; a review that finds one leaves it with    *)
(* the decision as status, the target's role being what it was.            *)
C24_ReviewFrame ==
    [][Review(1) =>
          /\ participants' = participants
          /\ UNCHANGED <<campaign, bans, prizes, events>>
          /\ procs[1].pc = "idle" => responses' = responses
          /\ procs[1].pc # "idle" =>
                LET target == procs[1].target IN
                /\ \A u \in Users \ {target} : responses'[u] = responses[u]
                /\ (procs[1].pc = "review_find" /\ responses[target] = "NONE")
                      => /\ last' = [op |-> "review", result |-> Err("NotFound", "response")]
                         /\ Returned(1)
                         /\ responses' = responses
                /\ procs[1].pc = "review_update"
                      => /\ responses'[target] = procs[1].action
                         /\ last' = [op |-> "review", result |-> Ok]]_vars

\* An application has been reviewed as APPROVED and the applicant is still
\* PENDING.
C24_Witness ==
    /\ last = [op |-> "review", result |-> Ok]
    /\ \E u \in Users : responses[u] = "APPROVED" /\ participants[u] = "PENDING"

\* The number of entries of the sequence seq equal to x.
Occurrences(seq, x) == Cardinality({k \in DOMAIN seq : seq[k] = x})

\* The sequences a and b hold the same entries, each as often.
SameEntries(a, b) ==
    /\ Len(a) = Len(b)
    /\ \A k \in DOMAIN a : Occurrences(a, a[k]) = Occurrences(b, a[k])

(* C25: once a setQuestions call has returned and no other is running,     *)
(* every listing of the campaign's questions holds exactly the questions   *)
(* of that call, with the order given or else their 1-based position, and  *)
(* no row of an earlier call, in ascending order; also when the delete and *)
(* create steps of two calls interleaved.                                  *)
C25_QuestionsRoundTrip ==
    (InFlight = {} /\ last.op = "setQuestions" /\ last.result.kind = "OK")
    => \A listing \in getWaitlistQuestions :
          /\ SameEntries(listing, last.result.created)
          /\ \A i, j \in DOMAIN listing :
                i < j => listing[i].order <= listing[j].order

(* C26: approve changes a role only from PENDING to MEMBER: its update     *)
(* leaves the role of a target that is CREATOR, ADMIN or MEMBER as it was, *)
(* and with no row for the target it creates none and the call publishes   *)
(* no participantJoined event.                                             *)
C26_ApproveOnlyPending ==
    [][ApproveUpdate(1) =>
          LET target == procs[1].target IN
          /\ \A u \in Users \ {target} : participants'[u] = participants[u]
          /\ participants[target] \in {"CREATOR", "ADMIN", "MEMBER"}
                => participants'[target] = participants[target]
          /\ participants[target] = "PENDING" => participants'[target] = "MEMBER"
          /\ participants[target] = "NONE"
                => /\ participants'[target] = "NONE"
                   /\ Returned(1)
                   /\ events' = events]_vars

\* The participants admitted to the campaign other than its creator.
Admitted ==
    {u \in Users \ {campaign.createdBy} : participants[u] \in {"MEMBER", "ADMIN"}}

(* C27: in a WAITLIST campaign the admitted participants other than the    *)
(* creator, those with role MEMBER or ADMIN, never number more than        *)
(* editorSlots, whatever join, approve and manage calls have run.          *)
C27_AdmittedWithinSlots ==
    campaign.campaignType = "WAITLIST"
        => Cardinality(Admitted) <= campaign.editorSlots

(* C28: no user has both a ban record and a participant row of the         *)
(* campaign once the join and the ban of that user have both returned,     *)
(* however their steps interleaved.                                        *)
C28_BannedHasNoRow ==
    InFlight = {} => \A u \in Users : ~(u \in bans /\ participants[u] # "NONE")

(* C29: a participant row is inserted only while the stored status of the  *)
(* campaign is ACTIVE, however the join interleaves with close and with    *)
(* the sweep; once the campaign is ENDED its participant rows never grow.  *)
C29_InsertOnlyWhileActive ==
    [][(\E u \in Users : participants[u] = "NONE" /\ participants'[u] # "NONE")
          => campaign.status = "ACTIVE"]_vars

\* The distinct clips submitted to the campaign.
SubmittedClips ==
    {inbox[m].clip : m \in {k \in DOMAIN inbox : inbox[k].type = "clip.submitted"}}

(* C30: once every clip message has been handled, each delivered once,     *)
(* the totalSubmissions of the public stats equals the number of distinct  *)
(* clips submitted to the campaign, each clip being submitted once and     *)
(* reviewed at most once after that.                                       *)
C30_TotalCountsClips ==
    (\A m \in DOMAIN inbox : inbox[m].state = "acked")
        => totalSubmissions = Cardinality(SubmittedClips)

====
